---- MODULE Spec2Model ----
(***************************************************************************)
(* Model of core/bin/external_node/src/node_builder.rs:                    *)
(* ExternalNodeBuilder, its add_*_layer steps and build().                 *)
(*                                                                         *)
(* Spec            the whole of build(), from ExternalNodeBuilder::new.    *)
(* SpecComponents  the component phase of build() (lines 136-170): the     *)
(*                 sort of the selection, the dispatch loop and the        *)
(*                 finalization, entered with the builder that the base    *)
(*                 phase (lines 126-131) hands over.  In the whole build   *)
(*                 this phase is cut off by the todo!() of                 *)
(*                 add_preconditions (line 115).                           *)
(* SpecRegistry    the resource registry of the node framework, which is   *)
(*                 not part of this source file and is modelled from the   *)
(*                 design document.                                        *)
(***************************************************************************)
EXTENDS Integers, Sequences, FiniteSets, TLC

VARIABLES
    pc,          \* position of build(): the step that runs next
    prometheus,  \* self.config.observability.prometheus().is_some()
    input,       \* the selection as passed to build()
    components,  \* the local `components` vector of build()
    idx,         \* position of the `for component in &components` loop
    layers,      \* self.node: the layers added to the ZkStackServiceBuilder
    processed,   \* components the dispatch has reached, in order
    outcome,     \* how build() ended: "None" while running
    error,       \* message of the error build() returned
    started,     \* layers whose tasks are running
    registry,    \* resource registry: set of [type, id]
    nextId,      \* identity of the next resource instance created
    handles      \* [layer, type, id]: what each layer obtained

vars == <<pc, prometheus, input, components, idx, layers, processed,
          outcome, error, started, registry, nextId, handles>>

buildVars == <<pc, prometheus, input, components, idx, layers, processed,
               outcome, error, started>>

registryVars == <<registry, nextId, handles>>

----------------------------------------------------------------------------
(* Bounds *)

MaxComponents == 4

MaxRequests == 4

----------------------------------------------------------------------------
(* Data *)

Component == {"Core", "HttpApi", "WsApi", "Tree", "TreeApi", "TreeFetcher"}

Range(s) == {s[i] : i \in 1..Len(s)}

\* selections: component identifiers without duplicates, in any order
Selections ==
    UNION {{s \in [1..n -> Component] : \A i, j \in 1..n : i # j => s[i] # s[j]}
           : n \in 0..MaxComponents}

TreeApiMessage == "Merkle tree API cannot be started without a tree component"

----------------------------------------------------------------------------
(* The add_*_layer steps: each maps self.node to the Ok(self) it returns *)

add_sigint_handler_layer(node) == Append(node, "SigintHandlerLayer")

add_pools_layer_front(node) == <<"PoolsLayer">> \o node

add_pools_layer(node) == Append(node, "PoolsLayer")

add_postgres_metrics_layer(node) == Append(node, "PostgresMetricsLayer")

add_main_node_client_layer_front(node) == <<"MainNodeClientLayer">> \o node

add_main_node_client_layer(node) == Append(node, "MainNodeClientLayer")

add_healthcheck_layer(node) == Append(node, "HealthCheckLayer")

add_prometheus_exporter_layer_always(node, prom) ==
    Append(node, "PrometheusExporterLayer")

add_prometheus_exporter_layer(node, prom) ==
    IF prom THEN Append(node, "PrometheusExporterLayer") ELSE node

\* todo!(): panics, returns nothing
add_preconditions(node) == [result |-> "Panic", node |-> node]

add_tree_data_fetcher_layer_front(node) == <<"TreeDataFetcherLayer">> \o node

add_tree_data_fetcher_layer_none(node) == node

add_tree_data_fetcher_layer(node) == Append(node, "TreeDataFetcherLayer")

----------------------------------------------------------------------------
(* ExternalNodeBuilder::new and the base phase of build() *)

CanBuild_reusable == pc \in {"new", "done"}

CanBuild == pc = "new"

Init ==
    /\ pc = "new"
    /\ prometheus \in BOOLEAN
    /\ input = <<>>
    /\ components = <<>>
    /\ idx = 0
    /\ layers = <<>>
    /\ processed = <<>>
    /\ outcome = "None"
    /\ error = ""
    /\ started = {}
    /\ registry = {}
    /\ nextId = 1
    /\ handles = {}

Build(selection) ==
    /\ CanBuild
    /\ pc' = "add_sigint_handler_layer"
    /\ input' = selection
    /\ components' = selection
    /\ idx' = 0
    /\ layers' = <<>>
    /\ processed' = <<>>
    /\ outcome' = "None"
    /\ error' = ""
    /\ UNCHANGED <<prometheus, started, registryVars>>

BaseStep(at, node, next) ==
    /\ pc = at
    /\ layers' = node
    /\ pc' = next
    /\ UNCHANGED <<prometheus, input, components, idx, processed, outcome,
                   error, started, registryVars>>

AddSigintHandlerLayer ==
    BaseStep("add_sigint_handler_layer", add_sigint_handler_layer(layers),
             "add_healthcheck_layer")

AddHealthcheckLayer ==
    BaseStep("add_healthcheck_layer", add_healthcheck_layer(layers),
             "add_prometheus_exporter_layer")

AddPrometheusExporterLayer ==
    BaseStep("add_prometheus_exporter_layer",
             add_prometheus_exporter_layer(layers, prometheus),
             "add_pools_layer")

AddPoolsLayer ==
    BaseStep("add_pools_layer", add_pools_layer(layers),
             "add_main_node_client_layer")

AddMainNodeClientLayer ==
    BaseStep("add_main_node_client_layer", add_main_node_client_layer(layers),
             "add_preconditions")

AddPreconditions ==
    /\ pc = "add_preconditions"
    /\ LET r == add_preconditions(layers) IN
        /\ layers' = r.node
        /\ IF r.result = "Ok"
           THEN pc' = "sort" /\ outcome' = outcome
           ELSE pc' = "done" /\ outcome' = r.result
    /\ UNCHANGED <<prometheus, input, components, idx, processed, error,
                   started, registryVars>>

Next ==
    \/ \E selection \in Selections : Build(selection)
    \/ AddSigintHandlerLayer
    \/ AddHealthcheckLayer
    \/ AddPrometheusExporterLayer
    \/ AddPoolsLayer
    \/ AddMainNodeClientLayer
    \/ AddPreconditions

Spec == Init /\ [][Next]_vars

----------------------------------------------------------------------------
(* The component phase of build(): sort, dispatch loop, finalization *)

Tier_http_only(component) == IF component = "HttpApi" THEN 1 ELSE 0

\* the key of components.sort_unstable_by_key
Tier(component) == IF component \in {"HttpApi", "WsApi"} THEN 1 ELSE 0

Perms(n) ==
    {p \in [1..n -> 1..n] : \A i, j \in 1..n : i # j => p[i] # p[j]}

sort_unstable_by_key_unsorted(s) == {s}

\* sort_unstable_by_key: some rearrangement of the slice with the keys in
\* non-decreasing order; the order of elements with equal keys is unspecified
sort_unstable_by_key(s) ==
    {t \in {[i \in 1..Len(s) |-> s[p[i]]] : p \in Perms(Len(s))} :
        \A i, j \in 1..Len(t) : i < j => Tier(t[i]) <= Tier(t[j])}

TreeApiCheck_prefix(comps) ==
    \E i \in 1..Len(comps) :
        comps[i] = "Tree" /\ \A j \in 1..i : comps[j] # "TreeApi"

TreeApiCheck_dropped(comps) == TRUE

\* anyhow::ensure!(components.contains(&Component::Tree), ...)
TreeApiCheck(comps) == "Tree" \in Range(comps)

Dispatch_treeapi_layer(component, node, comps) ==
    CASE component = "HttpApi" -> [result |-> "Panic", node |-> node, error |-> ""]
      [] component = "WsApi" -> [result |-> "Panic", node |-> node, error |-> ""]
      [] component = "Tree" -> [result |-> "Panic", node |-> node, error |-> ""]
      [] component = "TreeApi" ->
            IF TreeApiCheck(comps)
            THEN [result |-> "Ok", node |-> Append(node, "TreeApiLayer"), error |-> ""]
            ELSE [result |-> "Err", node |-> node, error |-> TreeApiMessage]
      [] component = "TreeFetcher" ->
            [result |-> "Ok", node |-> add_tree_data_fetcher_layer(node), error |-> ""]
      [] component = "Core" ->
            [result |-> "Panic", node |-> add_postgres_metrics_layer(node), error |-> ""]

Dispatch_skips_api(component, node, comps) ==
    CASE component = "HttpApi" -> [result |-> "Ok", node |-> node, error |-> ""]
      [] component = "WsApi" -> [result |-> "Ok", node |-> node, error |-> ""]
      [] component = "Tree" -> [result |-> "Panic", node |-> node, error |-> ""]
      [] component = "TreeApi" ->
            IF TreeApiCheck(comps)
            THEN [result |-> "Ok", node |-> node, error |-> ""]
            ELSE [result |-> "Err", node |-> node, error |-> TreeApiMessage]
      [] component = "TreeFetcher" ->
            [result |-> "Ok", node |-> add_tree_data_fetcher_layer(node), error |-> ""]
      [] component = "Core" ->
            [result |-> "Panic", node |-> add_postgres_metrics_layer(node), error |-> ""]

\* one arm of `match component`: the builder it leaves and how it ends
Dispatch(component, node, comps) ==
    CASE component = "HttpApi" -> [result |-> "Panic", node |-> node, error |-> ""]
      [] component = "WsApi" -> [result |-> "Panic", node |-> node, error |-> ""]
      [] component = "Tree" -> [result |-> "Panic", node |-> node, error |-> ""]
      [] component = "TreeApi" ->
            IF TreeApiCheck(comps)
            THEN [result |-> "Ok", node |-> node, error |-> ""]
            ELSE [result |-> "Err", node |-> node, error |-> TreeApiMessage]
      [] component = "TreeFetcher" ->
            [result |-> "Ok", node |-> add_tree_data_fetcher_layer(node), error |-> ""]
      [] component = "Core" ->
            [result |-> "Panic", node |-> add_postgres_metrics_layer(node), error |-> ""]

\* the builder at line 136: the base layers of lines 126-131
BaseLayers(prom) ==
    add_main_node_client_layer(
        add_pools_layer(
            add_prometheus_exporter_layer(
                add_healthcheck_layer(add_sigint_handler_layer(<<>>)), prom)))

InitComponents ==
    /\ pc = "sort"
    /\ prometheus \in BOOLEAN
    /\ input \in Selections
    /\ components = input
    /\ idx = 0
    /\ layers = BaseLayers(prometheus)
    /\ processed = <<>>
    /\ outcome = "None"
    /\ error = ""
    /\ started = {}
    /\ registry = {}
    /\ nextId = 1
    /\ handles = {}

Sort ==
    /\ pc = "sort"
    /\ components' \in sort_unstable_by_key(components)
    /\ idx' = 1
    /\ pc' = "loop"
    /\ UNCHANGED <<prometheus, input, layers, processed, outcome, error,
                   started, registryVars>>

LoopStep_continues ==
    /\ pc = "loop"
    /\ idx <= Len(components)
    /\ LET r == Dispatch(components[idx], layers, components) IN
        /\ layers' = r.node
        /\ processed' = Append(processed, components[idx])
        /\ error' = r.error
        /\ pc' = pc
        /\ idx' = idx + 1
        /\ outcome' = IF r.result = "Ok" THEN outcome ELSE r.result
    /\ UNCHANGED <<prometheus, input, components, started, registryVars>>

LoopStep ==
    /\ pc = "loop"
    /\ idx <= Len(components)
    /\ LET r == Dispatch(components[idx], layers, components) IN
        /\ layers' = r.node
        /\ processed' = Append(processed, components[idx])
        /\ error' = r.error
        /\ IF r.result = "Ok"
           THEN pc' = pc /\ idx' = idx + 1 /\ outcome' = outcome
           ELSE pc' = "done" /\ idx' = idx /\ outcome' = r.result
    /\ UNCHANGED <<prometheus, input, components, started, registryVars>>

LoopEnd ==
    /\ pc = "loop"
    /\ idx > Len(components)
    /\ pc' = "finalize"
    /\ UNCHANGED <<prometheus, input, components, idx, layers, processed,
                   outcome, error, started, registryVars>>

\* Ok(self.node.build()?)
Finalize ==
    /\ pc = "finalize"
    /\ \E r \in {"Ok", "Err"} :
        /\ outcome' = r
        /\ error' = IF r = "Err" THEN "ZkStackServiceError" ELSE ""
    /\ pc' = "done"
    /\ UNCHANGED <<prometheus, input, components, idx, layers, processed,
                   started, registryVars>>

\* the returned service is run: the tasks of its layers start
Run ==
    /\ pc = "done"
    /\ outcome = "Ok"
    /\ started = {}
    /\ started' = Range(layers)
    /\ UNCHANGED <<pc, prometheus, input, components, idx, layers, processed,
                   outcome, error, registryVars>>

NextComponents ==
    \/ Sort
    \/ LoopStep
    \/ LoopEnd
    \/ Finalize
    \/ Run

SpecComponents == InitComponents /\ [][NextComponents]_vars

----------------------------------------------------------------------------
(* The resource registry *)

Layer == {"SigintHandlerLayer", "HealthCheckLayer", "PrometheusExporterLayer",
          "PoolsLayer", "MainNodeClientLayer", "PostgresMetricsLayer",
          "TreeDataFetcherLayer"}

ResourceType == {"Pool", "HealthRegistry"}

Existing(reg, type) == {r \in reg : r.type = type}

get_or_insert_always(reg, type, fresh) ==
    [registry |-> reg \cup {[type |-> type, id |-> fresh]},
     id |-> fresh,
     created |-> TRUE]

\* get_or_insert<T>(factory): the existing value of the type if present,
\* otherwise a new one, installed
get_or_insert(reg, type, fresh) ==
    IF Existing(reg, type) # {}
    THEN [registry |-> reg,
          id |-> (CHOOSE r \in Existing(reg, type) : TRUE).id,
          created |-> FALSE]
    ELSE [registry |-> reg \cup {[type |-> type, id |-> fresh]},
          id |-> fresh,
          created |-> TRUE]

InitRegistry ==
    /\ pc = "attach"
    /\ prometheus = FALSE
    /\ input = <<>>
    /\ components = <<>>
    /\ idx = 0
    /\ layers = <<>>
    /\ processed = <<>>
    /\ outcome = "None"
    /\ error = ""
    /\ started = {}
    /\ registry = {}
    /\ nextId = 1
    /\ handles = {}

\* a layer's attach requests a resource type through get_or_insert
Request(layer, type) ==
    /\ pc = "attach"
    /\ Cardinality(handles) < MaxRequests
    /\ \A h \in handles : ~(h.layer = layer /\ h.type = type)
    /\ LET r == get_or_insert(registry, type, nextId) IN
        /\ registry' = r.registry
        /\ nextId' = IF r.created THEN nextId + 1 ELSE nextId
        /\ handles' = handles \cup {[layer |-> layer, type |-> type, id |-> r.id]}
    /\ UNCHANGED buildVars

NextRegistry == \E layer \in Layer, type \in ResourceType : Request(layer, type)

SpecRegistry == InitRegistry /\ [][NextRegistry]_vars

----------------------------------------------------------------------------
(* Properties *)

\* C1: for every selection that contains TreeApi and not Tree, build ends
\* with the configuration error that names the missing tree component,
\* no service is returned and no task has started.
C1_TreeApiWithoutTreeIsConfigurationError ==
    (pc = "done" /\ "TreeApi" \in Range(input) /\ "Tree" \notin Range(input))
        => (outcome = "Err" /\ error = TreeApiMessage /\ started = {})

\* C2: whatever the selection, the base layers are added in the order signal
\* handler, healthcheck, prometheus exporter (when configured), pools, main
\* node client: the layer list is always a prefix of that sequence, and the
\* whole of it once the base phase is over.
C2_BaseLayersInFixedOrder ==
    LET base == IF prometheus
                THEN <<"SigintHandlerLayer", "HealthCheckLayer",
                       "PrometheusExporterLayer", "PoolsLayer",
                       "MainNodeClientLayer">>
                ELSE <<"SigintHandlerLayer", "HealthCheckLayer", "PoolsLayer",
                       "MainNodeClientLayer">>
    IN  /\ Len(layers) <= Len(base)
        /\ layers = SubSeq(base, 1, Len(layers))
        /\ (pc \in {"add_preconditions", "done"} => layers = base)

C2_Witness ==
    /\ pc = "add_preconditions"
    /\ prometheus
    /\ input = <<"HttpApi", "TreeFetcher", "Core">>
    /\ layers = <<"SigintHandlerLayer", "HealthCheckLayer",
                  "PrometheusExporterLayer", "PoolsLayer", "MainNodeClientLayer">>

C4_TierZeroBeforeTierOne ==
    \A j \in 1..Len(processed) :
        processed[j] \in {"HttpApi", "WsApi"} =>
            \A c \in Range(input) \cap {"Core", "Tree", "TreeApi", "TreeFetcher"} :
                /\ \E i \in 1..(j - 1) : processed[i] = c
                /\ c = "TreeFetcher" => "TreeDataFetcherLayer" \in Range(layers)
                /\ c = "Core" => "PostgresMetricsLayer" \in Range(layers)

C4_Witness ==
    /\ input = <<"HttpApi", "TreeFetcher">>
    /\ processed = <<"TreeFetcher", "HttpApi">>
    /\ "TreeDataFetcherLayer" \in Range(layers)

C6_NoPrometheusBuildSucceeds ==
    (pc = "done" /\ ~prometheus) =>
        /\ outcome = "Ok"
        /\ "PrometheusExporterLayer" \notin Range(layers)
        /\ error = ""

\* C7: for a selection that satisfies the TreeApi-needs-Tree precondition,
\* build returns a service built from the base layers followed by the layers
\* of exactly the selected components.
C7_ValidSelectionBuildsService ==
    (pc = "done" /\ ("TreeApi" \in Range(input) => "Tree" \in Range(input))) =>
        /\ outcome = "Ok"
        /\ ("TreeFetcher" \in Range(input)
                <=> "TreeDataFetcherLayer" \in Range(layers))
        /\ ("Core" \in Range(input)
                <=> "PostgresMetricsLayer" \in Range(layers))

\* C8: the builder goes Empty -> Accumulating -> Built or Failed; a finished
\* build is in exactly one of the two, and from there the builder takes no
\* further layer and no further build call.  (A panic unwinds through build
\* and drops the builder: it counts as Failed.)
C8_BuilderLifecycle ==
    [][LET Lifecycle(p, o) ==
               IF p = "new" THEN "Empty"
               ELSE IF p # "done" THEN "Accumulating"
               ELSE IF o = "Ok" THEN "Built"
               ELSE "Failed"
       IN  /\ <<Lifecycle(pc, outcome), Lifecycle(pc', outcome')>> \in
                  {<<"Empty", "Empty">>, <<"Empty", "Accumulating">>,
                   <<"Accumulating", "Accumulating">>,
                   <<"Accumulating", "Built">>, <<"Accumulating", "Failed">>,
                   <<"Built", "Built">>, <<"Failed", "Failed">>}
           /\ pc' = "done" => outcome' \in {"Ok", "Err", "Panic"}
           /\ pc = "done" => (layers' = layers /\ outcome' = outcome
                               /\ input' = input)]_vars

C8_Witness ==
    /\ pc = "done"
    /\ outcome = "Panic"
    /\ Len(layers) >= 4
    /\ Len(input) = 2

\* C9: no run of build reaches an unimplemented placeholder.
C9_NoPlaceholderReached == outcome # "Panic"

\* C10: all layers that request one resource type through get_or_insert
\* hold the same instance, and the registry never holds two instances of one
\* type.
C10_OneInstancePerType ==
    /\ \A r1, r2 \in registry : r1.type = r2.type => r1 = r2
    /\ \A h1, h2 \in handles : h1.type = h2.type => h1.id = h2.id
    /\ \A h \in handles : [type |-> h.type, id |-> h.id] \in registry

C10_Witness ==
    /\ [layer |-> "PostgresMetricsLayer", type |-> "Pool", id |-> 2] \in handles
    /\ [layer |-> "TreeDataFetcherLayer", type |-> "Pool", id |-> 2] \in handles
    /\ \E h \in handles : h.type = "HealthRegistry" /\ h.id = 1

\* C11: the first failing step ends build: once a step has failed, no layer
\* is added, no component is processed, and the outcome and the error stay
\* those of the failed step; a failed validation leaves the error of the
\* TreeApi check as what build returns.
C11_FirstFailureAborts ==
    [][/\ outcome # "None" =>
            /\ pc = "done" /\ pc' = "done"
            /\ layers' = layers
            /\ processed' = processed
            /\ outcome' = outcome
            /\ error' = error
       /\ (pc = "loop" /\ outcome = "None" /\ outcome' = "Err") =>
            /\ components[idx] = "TreeApi"
            /\ error' = TreeApiMessage
            /\ layers' = layers
            /\ pc' = "done"]_vars

C11_Witness ==
    /\ pc = "done"
    /\ outcome = "Err"
    /\ error = TreeApiMessage
    /\ components = <<"TreeApi", "TreeFetcher", "HttpApi">>
    /\ processed = <<"TreeApi">>
    /\ "TreeDataFetcherLayer" \notin Range(layers)

C13_TreeApiCheckOnFullSelection ==
    \A k \in 1..Len(processed) :
        processed[k] = "TreeApi" =>
            IF "Tree" \in Range(input)
            THEN error # TreeApiMessage /\ (k = Len(processed) => outcome = "None")
            ELSE /\ k = Len(processed)
                 /\ outcome = "Err"
                 /\ error = TreeApiMessage

\* TreeApi passed its check with Tree still ahead of it
C13_Witness ==
    /\ pc = "loop"
    /\ components = <<"TreeApi", "Tree">>
    /\ processed = <<"TreeApi">>
    /\ idx = 2
    /\ outcome = "None"

\* C14: the per-component layers come after the whole base phase: the base
\* layers, main node client last, fill the first places of the layer list,
\* the component phase starts with exactly them, and every layer behind
\* them is a per-component layer added by the dispatch loop.
C14_ComponentLayersAfterBasePhase ==
    LET nb == IF prometheus THEN 5 ELSE 4 IN
        /\ Len(layers) >= nb
        /\ layers[nb] = "MainNodeClientLayer"
        /\ \A i \in 1..nb :
              layers[i] \notin {"PostgresMetricsLayer", "TreeDataFetcherLayer"}
        /\ \A i \in (nb + 1)..Len(layers) :
              layers[i] \in {"PostgresMetricsLayer", "TreeDataFetcherLayer"}
        /\ pc = "sort" => Len(layers) = nb
        /\ Len(layers) > nb => (pc \in {"loop", "finalize", "done"}
                                 /\ Len(processed) >= 1)

C14_Witness ==
    /\ pc = "loop"
    /\ prometheus
    /\ processed = <<"TreeFetcher">>
    /\ layers = <<"SigintHandlerLayer", "HealthCheckLayer",
                  "PrometheusExporterLayer", "PoolsLayer",
                  "MainNodeClientLayer", "TreeDataFetcherLayer">>

\* C15: the step that processes TreeApi leaves the layer list as it was.
C15_TreeApiAddsNoLayer ==
    [][(pc = "loop" /\ idx <= Len(components) /\ components[idx] = "TreeApi")
            => layers' = layers]_vars

\* TreeApi was processed with Tree selected; the layers are those of the
\* selection without TreeApi
C15_Witness ==
    /\ pc = "loop"
    /\ ~prometheus
    /\ components = <<"TreeFetcher", "TreeApi", "Tree">>
    /\ processed = <<"TreeFetcher", "TreeApi">>
    /\ layers = <<"SigintHandlerLayer", "HealthCheckLayer", "PoolsLayer",
                  "MainNodeClientLayer", "TreeDataFetcherLayer">>

\* C16: without a prometheus configuration the prometheus step adds no
\* layer and build goes on to the pools step; the base steps then add what
\* they add with the configuration present, less the prometheus exporter
\* layer, in the same order.
C16_PrometheusStepSkipped ==
    LET NotPrometheus(l) == l # "PrometheusExporterLayer"
        withConfig ==
            CASE pc \in {"new", "add_sigint_handler_layer"} -> <<>>
              [] pc = "add_healthcheck_layer" -> <<"SigintHandlerLayer">>
              [] pc = "add_prometheus_exporter_layer" ->
                    <<"SigintHandlerLayer", "HealthCheckLayer">>
              [] pc = "add_pools_layer" ->
                    <<"SigintHandlerLayer", "HealthCheckLayer",
                      "PrometheusExporterLayer">>
              [] pc = "add_main_node_client_layer" ->
                    <<"SigintHandlerLayer", "HealthCheckLayer",
                      "PrometheusExporterLayer", "PoolsLayer">>
              [] OTHER ->
                    <<"SigintHandlerLayer", "HealthCheckLayer",
                      "PrometheusExporterLayer", "PoolsLayer",
                      "MainNodeClientLayer">>
    IN  ~prometheus =>
            /\ layers = SelectSeq(withConfig, NotPrometheus)
            /\ pc # "done" => outcome = "None"

C16_Witness ==
    /\ ~prometheus
    /\ pc = "add_pools_layer"
    /\ layers = <<"SigintHandlerLayer", "HealthCheckLayer">>
    /\ outcome = "None"

\* C17: when the dispatch reaches HttpApi, WsApi or Tree, build stops there
\* in a failure; no service is returned for a selection that has one of
\* them, and no task starts.
C17_MissingAttachLogicFails ==
    /\ \A k \in 1..Len(processed) :
          processed[k] \in {"HttpApi", "WsApi", "Tree"} =>
              /\ k = Len(processed)
              /\ pc = "done"
              /\ outcome = "Panic"
              /\ started = {}
    /\ outcome = "Ok" => Range(input) \cap {"HttpApi", "WsApi", "Tree"} = {}

C17_Witness ==
    /\ input = <<"WsApi", "TreeFetcher">>
    /\ processed = <<"TreeFetcher", "WsApi">>
    /\ outcome = "Panic"

C19_ConsumersAfterProducers ==
    /\ \A i \in 1..Len(layers) :
          /\ layers[i] \in {"PostgresMetricsLayer", "TreeDataFetcherLayer"} =>
                /\ \E j \in 1..(i - 1) : layers[j] = "PoolsLayer"
                /\ \E j \in 1..(i - 1) : layers[j] = "MainNodeClientLayer"
          /\ layers[i] = "MainNodeClientLayer" =>
                \E j \in 1..(i - 1) : layers[j] = "PoolsLayer"
    /\ "PostgresMetricsLayer" \in Range(layers) => "Core" \in Range(processed)
    /\ "TreeDataFetcherLayer" \in Range(layers)
            => "TreeFetcher" \in Range(processed)

C19_Witness ==
    /\ pc = "done"
    /\ processed = <<"TreeFetcher", "Core">>
    /\ "PostgresMetricsLayer" \in Range(layers)
    /\ "TreeDataFetcherLayer" \in Range(layers)

====
